---- MODULE Spec2Model ----
(***************************************************************************)
(* The Lambda handler `main' of src/main.js and the process state it reads: *)
(* the process environment (process.env) and the system clock (new Date()). *)
(*                                                                          *)
(* JavaScript strings that the handler computes with (the payload's keys    *)
(* and values, the serialized body) are sequences of one-character strings, *)
(* so that JSON.stringify's quoting and escaping and toISOString's          *)
(* formatting are modelled character by character.  Header names and values *)
(* are never computed with and stay plain strings.                          *)
(*                                                                          *)
(* A finite time value is the pair of ECMAScript's Day(t) and               *)
(* TimeWithinDay(t) (t = day * msPerDay + ms): TLC's integers are 32 bits   *)
(* wide and a time value in milliseconds since the epoch is not.            *)
(***************************************************************************)
EXTENDS Integers, Sequences, FiniteSets, TLC

VARIABLES
  env,      \* process.env: a function from the names of the set variables to their values
  clock,    \* the system clock: the time value new Date() would capture now
  history,  \* the invocations made so far, in order, each with what it was given and its promise
  log,      \* what the process has written to its console (stdout), in order
  delivered, \* how many of the promises have been handed to their awaiting callers
  deployment \* how the function was deployed: the script and the shell it ran in

vars == <<env, clock, history, log, delivered, deployment>>

(***************************************************************************)
(* Bounds and inputs                                                        *)
(***************************************************************************)

\* The number of invocations a behaviour makes; the process is followed up
\* to its last invocation.
MaxInvocations == 2

\* JavaScript's undefined, where a string could stand: a string is the
\* sequence of its characters, and undefined is the one-element sequence
\* below, which is no string since its element is not a single character.
Undefined == <<"undefined">>

\* The errors a built-in or a property access can throw, where a string
\* could stand.
RangeError == <<"RangeError">>
TypeError == <<"TypeError">>

\* The time value of an invalid Date.
NaN == [finite |-> FALSE, day |-> 0, ms |-> 0]

\* Values the hosting process gives STAGE (process.env holds strings only):
\* the empty string, "0", "false", "dev", "prod", and a value with the
\* characters JSON.stringify escapes (a quote, a backslash, a line feed).
StageValues ==
  { <<>>,
    <<"0">>,
    <<"f", "a", "l", "s", "e">>,
    <<"d", "e", "v">>,
    <<"p", "r", "o", "d">>,
    <<"a", "\"", "\\", "\n", "b">> }

\* The region the deployment's environment block passes besides the stage
\* (provider.region, us-east-1 unless --region is given).
DefaultRegion == <<"u", "s", "-", "e", "a", "s", "t", "-", "1">>

\* An argument of the handler: an object, given by the sequence of its
\* <<key, value>> properties, or no argument at all (undefined).
Object(props) == [defined |-> TRUE, props |-> props]
NoArgument == [defined |-> FALSE, props |-> <<>>]

\* The (event, context) pairs the invoking layer passes: nothing at all (a
\* direct call main()), and a GET /test event with its context.
Requests ==
  { [event |-> NoArgument, context |-> NoArgument],
    [event |-> Object(<< <<(<<"p", "a", "t", "h">>), (<<"/", "t", "e", "s", "t">>)>> >>),
     context |-> Object(<< <<(<<"r", "e", "q", "u", "e", "s", "t", "I", "d">>), (<<"r", "1">>)>> >>)] }

\* Clock readings, chosen around the places where the rendered fields roll
\* over: two instants of the same second (the first is the documentation's
\* example), and the last millisecond of the year 9999, after which every
\* field rolls over and toISOString changes to the expanded-year form.
ClockReadings ==
  { [finite |-> TRUE, day |-> 20295,   ms |-> 55616168],   \* 2025-07-26T15:26:56.168Z
    [finite |-> TRUE, day |-> 20295,   ms |-> 55616999],   \* 2025-07-26T15:26:56.999Z
    [finite |-> TRUE, day |-> 2932896, ms |-> 86399999],   \* 9999-12-31T23:59:59.999Z
    [finite |-> TRUE, day |-> 2932897, ms |-> 0] }         \* +010000-01-01T00:00:00.000Z

\* t1 is not later than t2.
TimeLeq(t1, t2) ==
  \/ t1.day < t2.day
  \/ t1.day = t2.day /\ t1.ms <= t2.ms

(***************************************************************************)
(* Date.prototype.toISOString                                               *)
(***************************************************************************)

Digits == <<"0", "1", "2", "3", "4", "5", "6", "7", "8", "9">>

\* n in decimal, padded with zeros to width w (the low w digits of n).
RECURSIVE Pad(_, _)
Pad(n, w) ==
  IF w = 0 THEN <<>> ELSE Pad(n \div 10, w - 1) \o <<Digits[(n % 10) + 1]>>

\* ECMAScript's YearFromTime, MonthFromTime and DateFromTime of a day number
\* (proleptic Gregorian calendar, day 0 = 1970-01-01), for days since
\* 0000-03-01.
CivilFromDays(day) ==
  LET z    == day + 719468
      era  == z \div 146097
      doe  == z - era * 146097
      yoe  == (doe - doe \div 1460 + doe \div 36524 - doe \div 146096) \div 365
      doy  == doe - (365 * yoe + yoe \div 4 - yoe \div 100)
      mp   == (5 * doy + 2) \div 153
      d    == doy - (153 * mp + 2) \div 5 + 1
      m    == IF mp < 10 THEN mp + 3 ELSE mp - 9
      y    == yoe + era * 400 + (IF m <= 2 THEN 1 ELSE 0)
  IN  [year |-> y, month |-> m, date |-> d]

\* Mutant: the year is always written with four digits.
IsoYearFourDigits(y) == Pad((IF y < 0 THEN -y ELSE y), 4)

\* The year: four digits for 0..9999, else a sign and six digits.
IsoYear(y) ==
  IF y >= 0 /\ y <= 9999 THEN Pad(y, 4)
  ELSE <<(IF y < 0 THEN "-" ELSE "+")>> \o Pad((IF y < 0 THEN -y ELSE y), 6)

\* new Date(t).toISOString(): YYYY-MM-DDTHH:mm:ss.sssZ in UTC, or a
\* RangeError for an invalid date.
toISOString(t) ==
  IF t = NaN THEN RangeError
  ELSE
    LET c  == CivilFromDays(t.day)
        h  == t.ms \div 3600000
        mi == (t.ms \div 60000) % 60
        s  == (t.ms \div 1000) % 60
        ms == t.ms % 1000
    IN  IsoYear(c.year) \o <<"-">> \o Pad(c.month, 2) \o <<"-">> \o Pad(c.date, 2)
        \o <<"T">> \o Pad(h, 2) \o <<":">> \o Pad(mi, 2) \o <<":">> \o Pad(s, 2)
        \o <<".">> \o Pad(ms, 3) \o <<"Z">>

(***************************************************************************)
(* JSON.stringify of an object whose property values are strings            *)
(***************************************************************************)

\* One character of a string, as JSON.stringify writes it.
EscapeChar(c) ==
  IF c = "\"" THEN <<"\\", "\"">>
  ELSE IF c = "\\" THEN <<"\\", "\\">>
  ELSE IF c = "\n" THEN <<"\\", "n">>
  ELSE <<c>>

\* The characters of a string, each as JSON.stringify writes it (the string
\* is split in halves, which keeps the recursion shallow).
RECURSIVE EscapeString(_)
EscapeString(s) ==
  IF s = <<>> THEN <<>>
  ELSE IF Len(s) = 1 THEN EscapeChar(s[1])
  ELSE LET mid == Len(s) \div 2
       IN  EscapeString(SubSeq(s, 1, mid)) \o EscapeString(SubSeq(s, mid + 1, Len(s)))

\* A string value in quotes.
QuoteJSONString(s) == <<"\"">> \o EscapeString(s) \o <<"\"">>

\* The members of an object, in property order; a property whose value is
\* undefined is left out.
RECURSIVE SerializeMembers(_, _)
SerializeMembers(props, first) ==
  IF props = <<>> THEN <<>>
  ELSE
    LET p == Head(props)
    IN  IF p[2] = Undefined THEN SerializeMembers(Tail(props), first)
        ELSE (IF first THEN <<>> ELSE <<",">>)
             \o QuoteJSONString(p[1]) \o <<":">> \o QuoteJSONString(p[2])
             \o SerializeMembers(Tail(props), FALSE)

\* Mutant: the text ends with a line feed.
JSONstringifyTrailingNewline(props) ==
  <<"{">> \o SerializeMembers(props, TRUE) \o <<"}", "\n">>

\* JSON.stringify(obj) with no indent argument: no whitespace between tokens.
\* An object is the sequence of its <<key, value>> properties in insertion
\* order.
JSONstringify(props) == <<"{">> \o SerializeMembers(props, TRUE) \o <<"}">>

(***************************************************************************)
(* JSON.parse of an object whose members are strings: what a caller does    *)
(* to decode the body.                                                      *)
(***************************************************************************)

\* The number of backslashes that stand directly before position j, not
\* looking further back than position lo.
BackslashRun(s, lo, j) ==
  IF j <= lo \/ s[j - 1] /= "\\" THEN 0
  ELSE LET others == {k \in lo..(j - 1) : s[k] /= "\\"}
       IN  IF others = {} THEN j - lo
           ELSE j - 1 - (CHOOSE k \in others : \A k2 \in others : k2 <= k)

\* The characters that the text s[lo..hi] of a string's inside stands for:
\* a backslash that is not itself escaped starts a two-character escape.
RECURSIVE Unescape(_, _, _, _)
Unescape(s, first, lo, hi) ==
  IF lo > hi THEN <<>>
  ELSE IF lo = hi THEN
    (IF BackslashRun(s, first, lo) % 2 = 1 THEN
       (IF s[lo] = "n" THEN <<"\n">> ELSE <<s[lo]>>)
     ELSE IF s[lo] = "\\" THEN <<>>
     ELSE <<s[lo]>>)
  ELSE LET mid == (lo + hi) \div 2
       IN  Unescape(s, first, lo, mid) \o Unescape(s, first, mid + 1, hi)

\* The value of the string whose inside is s[lo..hi].
StringValue(s, lo, hi) ==
  IF \A k \in lo..hi : s[k] /= "\\" THEN SubSeq(s, lo, hi)
  ELSE Unescape(s, lo, lo, hi)

\* The positions of the quotes of s that are not escaped: they open and
\* close its strings in turn.
Quotes(s) == {j \in 1..Len(s) : s[j] = "\"" /\ BackslashRun(s, 1, j) % 2 = 0}

\* The string whose opening quote is at s[i], Q being Quotes(s): its value
\* and the position after its closing quote, or next = 0 when the string is
\* malformed: not opened or not closed, a raw line feed in it, or an escape
\* other than \", \\ and \n.
ParseString(s, Q, i) ==
  LET bad == [val |-> <<>>, next |-> 0]
      closing == {j \in Q : j > i}
  IN  IF i \notin Q \/ closing = {} THEN bad
      ELSE
        LET j == CHOOSE j1 \in closing : \A j2 \in closing : j1 <= j2
            wellFormed ==
              \A k \in (i + 1)..(j - 1) :
                /\ s[k] /= "\n"
                /\ BackslashRun(s, i + 1, k) % 2 = 1 => s[k] \in {"\"", "\\", "n"}
        IN  IF wellFormed
            THEN [val |-> StringValue(s, i + 1, j - 1), next |-> j + 1]
            ELSE bad

\* The members from s[i] on, up to the closing brace that must end the text:
\* the sequence of <<key, value>> pairs, and whether the text is well-formed.
RECURSIVE ParseMembers(_, _, _, _)
ParseMembers(s, Q, i, acc) ==
  LET bad == [ok |-> FALSE, members |-> <<>>]
      k == ParseString(s, Q, i)
  IN  IF k.next = 0 \/ k.next > Len(s) \/ s[k.next] /= ":" THEN bad
      ELSE
        LET v == ParseString(s, Q, k.next + 1)
            got == Append(acc, <<k.val, v.val>>)
        IN  IF v.next = 0 \/ v.next > Len(s) THEN bad
            ELSE IF s[v.next] = "}" THEN
              (IF v.next = Len(s) THEN [ok |-> TRUE, members |-> got] ELSE bad)
            ELSE IF s[v.next] = "," THEN ParseMembers(s, Q, v.next + 1, got)
            ELSE bad

\* JSON.parse(s) for an object of string members: whether s is well-formed
\* (else JSON.parse throws a SyntaxError), and the object as a function
\* from its keys to their values (a repeated key keeps its last value).
JSONparse(s) ==
  LET r == IF Len(s) < 2 \/ s[1] /= "{" THEN [ok |-> FALSE, members |-> <<>>]
           ELSE IF Len(s) = 2 THEN [ok |-> s[2] = "}", members |-> <<>>]
           ELSE ParseMembers(s, Quotes(s), 2, <<>>)
      ms == r.members
  IN  [ok |-> r.ok,
       value |-> [k \in {ms[j][1] : j \in 1..Len(ms)} |->
                    ms[CHOOSE j \in 1..Len(ms) :
                         /\ ms[j][1] = k
                         /\ \A j2 \in 1..Len(ms) : ms[j2][1] = k => j2 <= j][2]]]

(***************************************************************************)
(* Date.parse of the ISO-8601 form: what a caller does to read a timestamp  *)
(***************************************************************************)

IsDigit(c) == \E d \in 1..10 : Digits[d] = c

DigitValue(c) == (CHOOSE d \in 1..10 : Digits[d] = c) - 1

\* The number written by the n digits of s from position i on.
RECURSIVE Number(_, _, _)
Number(s, i, n) ==
  IF n = 0 THEN 0 ELSE Number(s, i, n - 1) * 10 + DigitValue(s[i + n - 1])

\* The day number of a date of the proleptic Gregorian calendar.
DaysFromCivil(y, m, d) ==
  LET y2  == IF m <= 2 THEN y - 1 ELSE y
      era == y2 \div 400
      yoe == y2 - era * 400
      doy == (153 * (IF m > 2 THEN m - 3 ELSE m + 9) + 2) \div 5 + d - 1
      doe == yoe * 365 + yoe \div 4 - yoe \div 100 + doy
  IN  era * 146097 + doe - 719468

\* Date.parse(s) for YYYY-MM-DDTHH:mm:ss.sssZ and its expanded-year form
\* (a sign and six digits of year): the time value, or NaN.
DateParse(s) ==
  LET o == IF Len(s) = 27 /\ s[1] \in {"+", "-"} THEN 3 ELSE 0
      digitsAt == {1, 2, 3, 4, 6, 7, 9, 10, 12, 13, 15, 16, 18, 19, 21, 22, 23}
      shaped ==
        /\ Len(s) = 24 + o
        /\ \A i \in 1..o : IsDigit(s[i + 1])
        /\ \A i \in digitsAt : IsDigit(s[o + i])
        /\ s[o + 5] = "-" /\ s[o + 8] = "-" /\ s[o + 11] = "T"
        /\ s[o + 14] = ":" /\ s[o + 17] = ":" /\ s[o + 20] = "." /\ s[o + 24] = "Z"
  IN  IF ~shaped THEN NaN
      ELSE
        LET yabs == IF o = 0 THEN Number(s, 1, 4) ELSE Number(s, 2, 6)
            y  == IF o = 3 /\ s[1] = "-" THEN -yabs ELSE yabs
            mo == Number(s, o + 6, 2)
            d  == Number(s, o + 9, 2)
            h  == Number(s, o + 12, 2)
            mi == Number(s, o + 15, 2)
            sec == Number(s, o + 18, 2)
            ms == Number(s, o + 21, 3)
        IN  IF mo \in 1..12 /\ d \in 1..31 /\ h < 24 /\ mi < 60 /\ sec < 60
            THEN [finite |-> TRUE, day |-> DaysFromCivil(y, mo, d),
                  ms |-> ((h * 60 + mi) * 60 + sec) * 1000 + ms]
            ELSE NaN

(***************************************************************************)
(* The handler                                                              *)
(***************************************************************************)

\* process.env[name]: the variable's value, or undefined when it is not set.
ProcessEnv(name) == IF name \in DOMAIN env THEN env[name] ELSE Undefined

\* obj[key] of an argument: the property's value, undefined when the object
\* has no such property, and a TypeError when obj is undefined.
Property(obj, key) ==
  IF ~obj.defined THEN TypeError
  ELSE LET at == {i \in 1..Len(obj.props) : obj.props[i][1] = key}
       IN  IF at = {} THEN Undefined ELSE obj.props[CHOOSE i \in at : TRUE][2]

\* Mutant: a ?? b, which keeps the empty string.
LogicalNullish(a, b) == IF a /= Undefined THEN a ELSE b

\* a || b on strings and undefined: a when it is truthy (a non-empty
\* string), else b.
LogicalOr(a, b) == IF a /= Undefined /\ a /= <<>> THEN a ELSE b

\* Mutant: the header set without the CORS origin header.
ResponseHeadersNoOrigin ==
  ("Content-Type" :> "application/json")
  @@ ("Access-Control-Allow-Headers" :> "Content-Type")
  @@ ("Access-Control-Allow-Methods" :> "OPTIONS,POST,GET")

\* The headers literal.
ResponseHeaders ==
  ("Content-Type" :> "application/json")
  @@ ("Access-Control-Allow-Origin" :> "*")
  @@ ("Access-Control-Allow-Headers" :> "Content-Type")
  @@ ("Access-Control-Allow-Methods" :> "OPTIONS,POST,GET")

\* The payload's property names.
KeyMessage == <<"m", "e", "s", "s", "a", "g", "e">>
KeyTimestamp == <<"t", "i", "m", "e", "s", "t", "a", "m", "p">>
KeyStage == <<"s", "t", "a", "g", "e">>
KeyRequestId == <<"r", "e", "q", "u", "e", "s", "t", "I", "d">>

\* message: the string literal.
Message ==
  <<"H", "e", "l", "l", "o", " ", "W", "o", "r", "l", "d", " ", "f", "r", "o",
    "m", " ", "s", "e", "r", "v", "e", "r", "l", "e", "s", "s", " ", "s", "t",
    "a", "r", "t", "e", "r", " ", "t", "e", "m", "p", "l", "a", "t", "e", "!",
    " ", "J", "a", "y", "v", "e", "e">>

\* Mutant: the timestamp is rendered once, by the first invocation, and
\* reused by the later ones.
TimestampReused ==
  IF history /= <<>> /\ history[1].decoded.ok
  THEN history[1].decoded.value[KeyTimestamp]
  ELSE toISOString(clock)

\* Mutant: the handler remembers the last timestamp it gave and never
\* answers with an earlier one.
TimestampMonotonic ==
  IF history /= <<>> /\ ~TimeLeq(history[Len(history)].time, clock)
  THEN toISOString(history[Len(history)].time)
  ELSE toISOString(clock)

\* timestamp: new Date().toISOString(), the clock as it reads now.
Timestamp == toISOString(clock)

\* Mutant: the stage is read once, by the first invocation, and kept.
StageFirstSeen ==
  IF history /= <<>> /\ history[1].decoded.ok
  THEN history[1].decoded.value[KeyStage]
  ELSE LogicalOr(ProcessEnv("STAGE"), <<"d", "e", "v">>)

\* Mutant: process.env.STAGE with no default.
StageNoDefault == ProcessEnv("STAGE")

\* Mutant: the default also replaces the values "0" and "false", as if the
\* variable were read as a number or a flag.
StageCoerced ==
  IF ProcessEnv("STAGE") \in {<<"0">>, <<"f", "a", "l", "s", "e">>}
  THEN <<"d", "e", "v">>
  ELSE LogicalOr(ProcessEnv("STAGE"), <<"d", "e", "v">>)

\* stage: process.env.STAGE || 'dev'.
Stage == LogicalOr(ProcessEnv("STAGE"), <<"d", "e", "v">>)

\* Mutant: the payload of the setup guide's handler, which adds
\* requestId: context.requestId.
PayloadWithRequestId(event, context) ==
  << <<KeyMessage, Message>>,
     <<KeyTimestamp, Timestamp>>,
     <<KeyStage, Stage>>,
     <<KeyRequestId, Property(context, KeyRequestId)>> >>

\* Mutant: the payload also reports the region (region: process.env.REGION).
PayloadWithRegion(event, context) ==
  << <<KeyMessage, Message>>,
     <<KeyTimestamp, Timestamp>>,
     <<KeyStage, Stage>>,
     <<(<<"r", "e", "g", "i", "o", "n">>), ProcessEnv("REGION")>> >>

\* Mutant: the payload echoes the event's path when there is an event
\* (path: event?.path).
PayloadWithPath(event, context) ==
  << <<KeyMessage, Message>>,
     <<KeyTimestamp, Timestamp>>,
     <<KeyStage, Stage>>,
     <<(<<"p", "a", "t", "h">>),
       (IF event.defined THEN Property(event, <<"p", "a", "t", "h">>) ELSE Undefined)>> >>

\* The object literal given to JSON.stringify, its properties in the order
\* they are written.  The handler declares no parameters: nothing of event
\* or context is read.
Payload(event, context) ==
  << <<KeyMessage, Message>>,
     <<KeyTimestamp, Timestamp>>,
     <<KeyStage, Stage>> >>

\* Mutant: a missing STAGE is answered with an error status.
StatusCodeByStage == IF ProcessEnv("STAGE") = Undefined THEN 500 ELSE 200

\* The status code literal.
StatusCode == 200

\* The errors thrown while the properties of the payload are evaluated, in
\* evaluation order.
Thrown(props) ==
  SelectSeq([i \in 1..Len(props) |-> props[i][2]],
            LAMBDA v : v \in {RangeError, TypeError})

\* The promise an async function returns for a body that builds the response
\* from props: fulfilled with the response, or rejected with what the body
\* threw.
Settle(props) ==
  IF Thrown(props) /= <<>>
  THEN [state |-> "rejected", reason |-> Head(Thrown(props))]
  ELSE [state |-> "fulfilled",
        value |-> [statusCode |-> StatusCode,
                   headers |-> ResponseHeaders,
                   body |-> JSONstringify(props)]]

\* Mutant: the setup guide's handler, which prints the event and the context
\* before it answers.
SideEffectsLogging(event, context) ==
  [env |-> env,
   log |-> log \o <<[event |-> event], [context |-> context]>>]

\* Mutant: the handler stores the stage it resolved back into the
\* environment (process.env.STAGE = process.env.STAGE || 'dev').
SideEffectsWriteStage(event, context) ==
  [env |-> [n \in DOMAIN env \cup {"STAGE"} |-> IF n = "STAGE" THEN Stage ELSE env[n]],
   log |-> log]

\* What running the body leaves behind in the process: the body assigns to
\* nothing outside its own response object and prints nothing, so the
\* environment and the console are as they were.
SideEffects(event, context) == [env |-> env, log |-> log]

\* Mutant: while an invocation is in flight, a new call is answered with the
\* in-flight invocation's promise instead of running the body again.
mainCoalesced(event, context) ==
  IF delivered < Len(history) THEN history[Len(history)].promise
  ELSE Settle(Payload(event, context))

\* Mutant: the module keeps the first response it built and answers every
\* later call with it.
mainCached(event, context) ==
  IF history /= <<>> THEN history[1].promise
  ELSE Settle(Payload(event, context))

\* Mutant: the body awaits before it builds the response, so the call
\* returns a promise that is still pending.
mainSuspends(event, context) == [state |-> "pending"]

\* Mutant: the envelope and its headers are built once and every call
\* returns that same object with a new body; the object is in the state its
\* holders have left it in.
mainSharedEnvelope(event, context) ==
  IF history /= <<>> /\ history[1].promise.state = "fulfilled"
  THEN [state |-> "fulfilled",
        value |-> [history[1].promise.value
                     EXCEPT !.body = JSONstringify(Payload(event, context))]]
  ELSE Settle(Payload(event, context))

\* Mutant: the handler reads a field of the event before it answers.
mainReadsEvent(event, context) ==
  IF Property(event, <<"p", "a", "t", "h">>) = TypeError
  THEN [state |-> "rejected", reason |-> TypeError]
  ELSE Settle(Payload(event, context))

\* main: an async arrow function that takes no parameters; the arguments it
\* is called with are dropped.  Its body runs to the end at the call.
main(event, context) == Settle(Payload(event, context))

(***************************************************************************)
(* The state machine                                                        *)
(***************************************************************************)

\* What the caller reads from a settled promise: the envelope's body,
\* decoded.  It is recorded with the invocation, once, when the promise
\* settles.
\* ---------------------------------------------------------------------
\* Deployment: package.json scripts and serverless.yml.

\* The user names whoami can print.
UserNames == { <<"j", "a", "y", "v", "e", "e">>, <<"a", "l", "i", "c", "e">> }

\* The process was started by hand, not by a deployment.
NotDeployed == [script |-> "none", whoami |-> <<>>, USER |-> Undefined]

\* A deployment: the command that ran ("sls deploy" is the command without
\* a --stage option), what whoami prints, and the USER variable of the shell
\* that npm starts for the script (unset in shells that are no login shell
\* of the user, e.g. in a container or a scheduled job).
Deployments ==
  [script : {"deploy:prod", "deploy:dev", "sls deploy"},
   whoami : UserNames,
   USER   : {Undefined} \cup UserNames]

\* $USER as the shell expands it in the script's command line: the value of
\* the shell's variable, the empty string when it is unset.
ShellExpandUSER(d) == IF d.USER = Undefined THEN <<>> ELSE d.USER

\* The --stage option of the sls command the script runs.  In deploy:dev the
\* shell expands $USER before cross-env USER=$(whoami) runs, and cross-env
\* runs as a command of its own, before "&&".
StageOption(d) ==
  CASE d.script = "deploy:prod" -> <<"p", "r", "o", "d">>
    [] d.script = "deploy:dev"  -> ShellExpandUSER(d) \o <<"-", "d", "e", "v">>
    [] OTHER                    -> Undefined

\* Mutant: a deployment without --stage leaves the provider stage empty.
ProviderStageNoDefault(opt) == IF opt = Undefined THEN <<>> ELSE opt

\* provider.stage: ${opt:stage, 'dev'}.
ProviderStage(opt) == IF opt = Undefined THEN <<"d", "e", "v">> ELSE opt

\* provider.environment of the deployed function.
DeployedEnv(d) ==
  [n \in {"REGION", "STAGE"} |->
     IF n = "STAGE" THEN ProviderStage(StageOption(d)) ELSE DefaultRegion]

\* ---------------------------------------------------------------------

Decode(promise) ==
  IF promise.state = "fulfilled" THEN JSONparse(promise.value.body)
  ELSE [ok |-> FALSE, value |-> <<>>]

\* The process starts with the clock at some reading, STAGE set or not, and
\* no invocation made.
Init ==
  /\ env \in {[n \in {"REGION"} |-> DefaultRegion]}
            \cup {[n \in {"REGION", "STAGE"} |->
                     IF n = "STAGE" THEN v ELSE DefaultRegion] : v \in StageValues}
  /\ clock \in ClockReadings
  /\ history = <<>>
  /\ log = <<>>
  /\ delivered = 0
  /\ deployment = NotDeployed

\* main(event, context) is called: the body runs and the promise it returns
\* is recorded.
Call(req) ==
  /\ Len(history) < MaxInvocations
  /\ LET p == main(req.event, req.context)
     IN  history' = Append(history,
                           [event |-> req.event,
                            context |-> req.context,
                            stage |-> ProcessEnv("STAGE"),
                            others |-> [n \in DOMAIN env \ {"STAGE"} |-> env[n]],
                            time |-> clock,
                            promise |-> p,
                            decoded |-> Decode(p)])
  /\ env' = SideEffects(req.event, req.context).env
  /\ log' = SideEffects(req.event, req.context).log
  /\ UNCHANGED <<clock, deployment>>

\* The invoking layer calls main(event, context) and awaits the promise;
\* nothing else happens in the process before it has the response
\* (invocations one after the other).
Invoke(req) ==
  /\ Call(req)
  /\ delivered' = delivered + 1

\* A caller calls main(event, context) and its continuation is queued: the
\* invocation is in flight until the promise is handed over.
Start(req) ==
  /\ Call(req)
  /\ UNCHANGED delivered

\* The continuation of the oldest waiting caller runs (promise reactions
\* run in the order the promises settled): it has its response.
Deliver ==
  /\ delivered < Len(history)
  /\ delivered' = delivered + 1
  /\ UNCHANGED <<env, clock, history, log, deployment>>

\* Time passes: the clock moves forward to a later reading.
Tick ==
  /\ Len(history) < MaxInvocations
  /\ \E t \in ClockReadings :
       /\ t /= clock
       /\ TimeLeq(clock, t)
       /\ clock' = t
  /\ UNCHANGED <<env, history, log, delivered, deployment>>

\* The hosting process sets STAGE (the deployment's environment block, a
\* test's process.env.STAGE = v).
SetStage(v) ==
  /\ Len(history) < MaxInvocations
  /\ ProcessEnv("STAGE") /= v
  /\ env' = [n \in DOMAIN env \cup {"STAGE"} |-> IF n = "STAGE" THEN v ELSE env[n]]
  /\ UNCHANGED <<clock, history, log, delivered, deployment>>

\* The hosting process removes STAGE (delete process.env.STAGE).
UnsetStage ==
  /\ Len(history) < MaxInvocations
  /\ "STAGE" \in DOMAIN env
  /\ env' = [n \in DOMAIN env \ {"STAGE"} |-> env[n]]
  /\ UNCHANGED <<clock, history, log, delivered, deployment>>

Next ==
  \/ \E req \in Requests : Invoke(req)
  \/ Tick
  \/ \E v \in StageValues : SetStage(v)
  \/ UnsetStage

Spec == Init /\ [][Next]_vars

\* The regions the host switches REGION between.
Regions == { DefaultRegion, <<"e", "u", "-", "w", "e", "s", "t", "-", "1">> }

\* The host sets REGION, another variable of the function's environment.
SetRegion(v) ==
  /\ Len(history) < MaxInvocations
  /\ ProcessEnv("REGION") /= v
  /\ env' = [env EXCEPT !["REGION"] = v]
  /\ UNCHANGED <<clock, history, log, delivered, deployment>>

\* Callers that overlap: the STAGE values the host switches between while
\* invocations are in flight.
AsyncStageValues == { <<"p", "r", "o", "d">> }

InitAsync ==
  /\ Init
  /\ "STAGE" \in DOMAIN env => env["STAGE"] \in AsyncStageValues

NextAsync ==
  \/ \E req \in Requests : Start(req)
  \/ Deliver
  \/ Tick
  \/ \E v \in AsyncStageValues : SetStage(v)
  \/ UnsetStage
  \/ \E v \in Regions : SetRegion(v)

\* Several invocations in flight at once.
SpecAsync == InitAsync /\ [][NextAsync]_vars

\* What a caller does to an envelope it holds.
Mutations == {"set statusCode", "delete header", "add header", "change header"}

\* The envelope after the caller's assignment or delete.
Mutated(envelope, m) ==
  CASE m = "set statusCode" -> [envelope EXCEPT !.statusCode = 500]
    [] m = "delete header" ->
         [envelope EXCEPT !.headers =
            [n \in DOMAIN envelope.headers \ {"Access-Control-Allow-Origin"} |->
               envelope.headers[n]]]
    [] m = "add header" ->
         [envelope EXCEPT !.headers = ("X-Request-Id" :> "r1") @@ envelope.headers]
    [] OTHER ->
         [envelope EXCEPT !.headers = ("Content-Type" :> "text/plain") @@ envelope.headers]

\* The caller of invocation i, which has its response, changes the envelope
\* object it was given (once).
Mutate(i, m) ==
  /\ i \in 1..delivered
  /\ history[i].promise.state = "fulfilled"
  /\ history[i].promise.value = [history[i].promise.value
                                   EXCEPT !.statusCode = StatusCode,
                                          !.headers = ResponseHeaders]
  /\ history' = [history EXCEPT ![i].promise.value = Mutated(@, m)]
  /\ UNCHANGED <<env, clock, log, delivered, deployment>>

\* Callers that change the envelopes they were given.
InitCallers ==
  /\ Init
  /\ "STAGE" \in DOMAIN env => env["STAGE"] = <<"p", "r", "o", "d">>

NextCallers ==
  \/ \E req \in Requests : Invoke(req)
  \/ Tick
  \/ \E i \in 1..MaxInvocations, m \in Mutations : Mutate(i, m)

SpecCallers == InitCallers /\ [][NextCallers]_vars

\* The system clock is set back (a time synchronisation step, an operator's
\* change): it reads an earlier time than before.
StepBack ==
  /\ Len(history) < MaxInvocations
  /\ \E t \in ClockReadings :
       /\ t /= clock
       /\ TimeLeq(t, clock)
       /\ clock' = t
  /\ UNCHANGED <<env, history, log, delivered, deployment>>

\* A host whose clock can step backwards between invocations.
InitClockSteps ==
  /\ Init
  /\ "STAGE" \in DOMAIN env => env["STAGE"] = <<"p", "r", "o", "d">>

NextClockSteps ==
  \/ \E req \in Requests : Invoke(req)
  \/ Tick
  \/ StepBack

SpecClockSteps == InitClockSteps /\ [][NextClockSteps]_vars

\* A deployed function: its environment is the one serverless.yml gives it.
InitDeployed ==
  /\ deployment \in Deployments
  /\ env = DeployedEnv(deployment)
  /\ clock \in ClockReadings
  /\ history = <<>>
  /\ log = <<>>
  /\ delivered = 0

NextDeployed ==
  \/ \E req \in Requests : Invoke(req)
  \/ Tick

SpecDeployed == InitDeployed /\ [][NextDeployed]_vars

(***************************************************************************)
(* Properties                                                               *)
(***************************************************************************)

Calls == 1..Len(history)

\* The invocation returned a response envelope.
Returned(i) == history[i].promise.state = "fulfilled"

Envelope(i) == history[i].promise.value

\* The body decoded to a payload that has the field.
HasField(i, key) ==
  /\ Returned(i)
  /\ history[i].decoded.ok
  /\ key \in DOMAIN history[i].decoded.value

Field(i, key) == history[i].decoded.value[key]

\* C1: the statusCode of every returned response envelope is 200, whatever
\* STAGE, the clock and the request were.
C1_StatusCodeIs200 ==
  \A i \in Calls : Returned(i) => Envelope(i).statusCode = 200

\* C1 witness: envelopes were returned with STAGE unset and with STAGE set.
C1_Witness ==
  \E i, j \in Calls :
    /\ Returned(i) /\ history[i].stage = Undefined
    /\ Returned(j) /\ history[j].stage /= Undefined

\* The message of the documentation (README, example response).
DocumentedMessage ==
  <<"H", "e", "l", "l", "o", " ", "W", "o", "r", "l", "d", " ", "f", "r", "o",
    "m", " ", "s", "e", "r", "v", "e", "r", "l", "e", "s", "s", " ", "s", "t",
    "a", "r", "t", "e", "r", " ", "t", "e", "m", "p", "l", "a", "t", "e", "!">>

\* C2: the decoded message of every response is exactly
\* "Hello World from serverless starter template!".
C2_MessageIsDocumented ==
  \A i \in Calls :
    Returned(i) => HasField(i, KeyMessage) /\ Field(i, KeyMessage) = DocumentedMessage

\* C3: the headers of every returned envelope are exactly the four fixed
\* headers, CORS headers included: none missing, none added.
C3_HeadersExact ==
  \A i \in Calls :
    Returned(i) =>
      LET h == Envelope(i).headers
      IN  /\ DOMAIN h = {"Content-Type", "Access-Control-Allow-Origin",
                         "Access-Control-Allow-Headers", "Access-Control-Allow-Methods"}
          /\ h["Content-Type"] = "application/json"
          /\ h["Access-Control-Allow-Origin"] = "*"
          /\ h["Access-Control-Allow-Headers"] = "Content-Type"
          /\ h["Access-Control-Allow-Methods"] = "OPTIONS,POST,GET"

\* C3 witness: two envelopes were returned, for different requests.
C3_Witness ==
  \E i, j \in Calls :
    Returned(i) /\ Returned(j) /\ history[i].event /= history[j].event

\* C4: an invocation made while STAGE is unset or empty answers with the
\* stage "dev".
C4_DefaultStage ==
  \A i \in Calls :
    history[i].stage \in {Undefined, <<>>} =>
      HasField(i, KeyStage) /\ Field(i, KeyStage) = <<"d", "e", "v">>

\* C4 witness: one invocation ran with STAGE unset and one with STAGE empty,
\* and both answered.
C4_Witness ==
  \E i, j \in Calls :
    /\ history[i].stage = Undefined /\ HasField(i, KeyStage)
    /\ history[j].stage = <<>> /\ HasField(j, KeyStage)

\* C5: an invocation made while STAGE is a non-empty string S answers with
\* the stage S, character for character.
C5_StageIsEnvValue ==
  \A i \in Calls :
    history[i].stage \notin {Undefined, <<>>} =>
      HasField(i, KeyStage) /\ Field(i, KeyStage) = history[i].stage

\* C5 witness: invocations ran with STAGE "0" and with the value that holds
\* a quote, a backslash and a line feed.
C5_Witness ==
  \E i, j \in Calls :
    /\ history[i].stage = <<"0">> /\ HasField(i, KeyStage)
    /\ history[j].stage = <<"a", "\"", "\\", "\n", "b">> /\ HasField(j, KeyStage)

\* C6: the decoded stage of every response is present and is a non-empty
\* string.
C6_StageNeverEmpty ==
  \A i \in Calls :
    Returned(i) =>
      /\ HasField(i, KeyStage)
      /\ Field(i, KeyStage) /= <<>>
      /\ Field(i, KeyStage) /= Undefined

\* C6 witness: STAGE was changed from unset to the empty string between two
\* invocations that answered.
C6_Witness ==
  \E i, j \in Calls :
    /\ i < j
    /\ Returned(i) /\ history[i].stage = Undefined
    /\ Returned(j) /\ history[j].stage = <<>>

\* C7: every body decodes, and the decoded payload has exactly the keys
\* message, timestamp and stage.
C7_ExactKeys ==
  \A i \in Calls :
    Returned(i) =>
      /\ history[i].decoded.ok
      /\ DOMAIN history[i].decoded.value = {KeyMessage, KeyTimestamp, KeyStage}

\* C7 witness: a request that carries a context with a requestId was
\* answered, and so was a STAGE value with characters that need escaping.
C7_Witness ==
  \E i, j \in Calls :
    /\ Returned(i) /\ history[i].context.defined
    /\ Property(history[i].context, KeyRequestId) /= Undefined
    /\ Returned(j) /\ "\"" \in {history[j].stage[k] : k \in 1..Len(history[j].stage)}

\* The time a response's decoded timestamp denotes.
TimestampOf(i) == DateParse(Field(i, KeyTimestamp))

\* C8: of two invocations made one after the other, the later one's decoded
\* timestamp is not earlier than the first one's (the clock of Spec never
\* goes backwards).
C8_TimestampsNonDecreasing ==
  \A i, j \in Calls :
    i < j /\ Returned(i) /\ Returned(j) =>
      /\ HasField(i, KeyTimestamp) /\ HasField(j, KeyTimestamp)
      /\ LET ti == TimestampOf(i)
             tj == TimestampOf(j)
         IN  ti.finite /\ tj.finite /\ TimeLeq(ti, tj)

\* C8 witness: two invocations in sequence within the same second, the
\* clock having moved between them.
C8_Witness ==
  \E i, j \in Calls :
    /\ i < j /\ Returned(i) /\ Returned(j)
    /\ history[i].time.day = history[j].time.day
    /\ history[i].time.ms \div 1000 = history[j].time.ms \div 1000
    /\ history[i].time /= history[j].time

\* C9: every invocation ends with its promise fulfilled with a response
\* envelope; none is rejected.
C9_AlwaysFulfilled ==
  \A i \in Calls :
    /\ history[i].promise.state = "fulfilled"
    /\ DOMAIN history[i].promise.value = {"statusCode", "headers", "body"}

\* C9 witness: an invocation without event and context was made, with STAGE
\* unset.
C9_Witness ==
  \E i \in Calls :
    /\ ~history[i].event.defined /\ ~history[i].context.defined
    /\ history[i].stage = Undefined
    /\ Returned(i)

\* C10: two invocations with the same STAGE value and the same clock reading
\* return identical envelopes, whatever their requests are.
C10_RequestIgnored ==
  \A i, j \in Calls :
    history[i].stage = history[j].stage /\ history[i].time = history[j].time =>
      history[i].promise = history[j].promise

\* C10 witness: two invocations with the same STAGE and clock reading and
\* different requests.
C10_Witness ==
  \E i, j \in Calls :
    /\ history[i].stage = history[j].stage /\ history[i].time = history[j].time
    /\ history[i].event /= history[j].event
    /\ history[i].context /= history[j].context
    /\ Returned(i) /\ Returned(j)

\* A step in which main is invoked.
InvokeStep == Len(history') = Len(history) + 1

\* C11: an invocation leaves the process as it found it: STAGE and every
\* other environment variable keep their value or absence, nothing is
\* written to the console, and the clock and the earlier invocations'
\* records are untouched; the step only adds the invocation's own promise.
C11_InvocationLeavesProcessUnchanged ==
  [][InvokeStep =>
       /\ env' = env
       /\ log' = log
       /\ clock' = clock
       /\ SubSeq(history', 1, Len(history)) = history]_vars

\* C11 witness: two invocations were made with STAGE unset, and afterwards
\* STAGE is still unset, REGION still set, and the console is empty.
C11_Witness ==
  /\ Len(history) = 2
  /\ history[1].stage = Undefined /\ history[2].stage = Undefined
  /\ DOMAIN env = {"REGION"} /\ env["REGION"] = DefaultRegion
  /\ log = <<>>

\* The promise of an invocation that runs alone in a process whose STAGE is
\* stage (or undefined) and whose clock reads time.
PromiseAlone(stage, time) ==
  [state |-> "fulfilled",
   value |-> [statusCode |-> 200,
              headers |-> ResponseHeaders,
              body |-> JSONstringify(<< <<KeyMessage, Message>>,
                                        <<KeyTimestamp, toISOString(time)>>,
                                        <<KeyStage, LogicalOr(stage, <<"d", "e", "v">>)>> >>)]]

\* The invocations whose callers do not have their response yet.
InFlight == (delivered + 1)..Len(history)

\* C12: whatever else is in flight, the promise of an invocation in flight
\* is the promise it would give running alone with the STAGE value and the
\* clock reading of its call.
C12_ConcurrentInvocationsIndependent ==
  \A i \in InFlight :
    history[i].promise = PromiseAlone(history[i].stage, history[i].time)

\* C12 witness: two invocations are in flight at once, called with
\* different STAGE values at different clock readings.
C12_Witness ==
  /\ InFlight = {1, 2}
  /\ history[1].stage /= history[2].stage
  /\ history[1].time /= history[2].time

\* The invocation made last.  Every invocation is the last one in the state
\* in which it returns, and records are never changed afterwards.
LastCall == {Len(history)} \ {0}

\* C13: the response the n-th invocation returns is a function of the STAGE
\* value and the clock reading at that invocation alone, whatever number of
\* invocations, requests and responses came before it.
C13_StatelessBetweenInvocations ==
  \A n \in LastCall :
    history[n].promise = PromiseAlone(history[n].stage, history[n].time)

\* C13 witness: a second invocation that follows an invocation with another
\* request and another response.
C13_Witness ==
  /\ Len(history) = 2
  /\ history[1].event /= history[2].event
  /\ history[1].promise /= history[2].promise

\* C14: when STAGE differs between two invocations, the stage of the later
\* one is the value at the later invocation, or "dev" when STAGE was removed
\* or emptied by then.
C14_StageReadAtInvocation ==
  \A i, j \in Calls :
    (i < j /\ history[i].stage /= history[j].stage) =>
      /\ HasField(j, KeyStage)
      /\ Field(j, KeyStage) = IF history[j].stage \in {Undefined, <<>>}
                              THEN <<"d", "e", "v">>
                              ELSE history[j].stage

\* C14 witness: STAGE was "prod" at the first invocation and removed before
\* the second, which answers "dev".
C14_Witness ==
  /\ Len(history) = 2
  /\ history[1].stage = <<"p", "r", "o", "d">>
  /\ history[2].stage = Undefined
  /\ HasField(2, KeyStage) /\ Field(2, KeyStage) = <<"d", "e", "v">>

\* C15: the timestamp of every response, when it is returned, is in the form
\* YYYY-MM-DDTHH:mm:ss.sssZ (with a signed six-digit year outside 0..9999)
\* and denotes, to the millisecond, the clock reading of the invocation
\* that returned it.
C15_TimestampIsOwnClockReading ==
  \A i \in LastCall :
    /\ HasField(i, KeyTimestamp)
    /\ LET s == Field(i, KeyTimestamp)
           t == DateParse(s)
       IN  /\ Len(s) \in {24, 27}
           /\ s[Len(s)] = "Z" /\ s[Len(s) - 4] = "."
           /\ t.finite
           /\ t = history[i].time

\* C15 witness: two invocations at different clock readings, each answering
\* with its own timestamp.
C15_Witness ==
  /\ Len(history) = 2
  /\ history[1].time /= history[2].time
  /\ HasField(1, KeyTimestamp) /\ HasField(2, KeyTimestamp)
  /\ Field(1, KeyTimestamp) /= Field(2, KeyTimestamp)

\* C16: the step that starts an invocation also determines its response, from
\* the STAGE value and the clock reading of that one step, which are the
\* same before and after it; the promise is settled when the call returns
\* and no later step of the process changes it.
C16_InvocationNeverSuspends ==
  [][/\ InvokeStep =>
          LET p == history'[Len(history')].promise
          IN  /\ p.state /= "pending"
              /\ p = PromiseAlone(ProcessEnv("STAGE"), clock)
              /\ ProcessEnv("STAGE")' = ProcessEnv("STAGE")
              /\ clock' = clock
      /\ \A i \in Calls : history'[i].promise = history[i].promise]_vars

\* C16 witness: the caller of an invocation has not resumed yet, the promise
\* is already fulfilled, and STAGE has been changed since the call.
C16_Witness ==
  \E i \in InFlight :
    /\ Returned(i)
    /\ history[i].stage /= ProcessEnv("STAGE")

\* The stage the README documents for a deployment.
DocumentedStage(d) ==
  CASE d.script = "deploy:prod" -> <<"p", "r", "o", "d">>
    [] d.script = "deploy:dev"  -> d.whoami \o <<"-", "d", "e", "v">>
    [] OTHER                    -> <<"d", "e", "v">>

\* C17: in a deployed function STAGE is set, it is the resolved provider
\* stage, and the stage of every response is "prod" after deploy:prod,
\* "<username>-dev" after deploy:dev and "dev" after a deployment without a
\* stage option.
C17_DeployedStage ==
  \A i \in Calls :
    /\ history[i].stage /= Undefined
    /\ history[i].stage = ProviderStage(StageOption(deployment))
    /\ HasField(i, KeyStage)
    /\ Field(i, KeyStage) = DocumentedStage(deployment)

\* C17, the part that holds: in a deployed function STAGE is set to the
\* resolved provider stage, and the stage of the response is "prod" after
\* deploy:prod, "dev" without a stage option, and after deploy:dev the
\* shell's USER (empty when unset) followed by "-dev".
C17_DeployedStageFromShell ==
  \A i \in Calls :
    /\ history[i].stage /= Undefined
    /\ HasField(i, KeyStage)
    /\ Field(i, KeyStage) = history[i].stage
    /\ Field(i, KeyStage) =
         IF deployment.script = "deploy:dev"
         THEN ShellExpandUSER(deployment) \o <<"-", "d", "e", "v">>
         ELSE DocumentedStage(deployment)

\* C17 witness: the function deployed with deploy:dev from a shell without
\* USER has answered an invocation.
C17_Witness ==
  /\ deployment.script = "deploy:dev"
  /\ deployment.USER = Undefined
  /\ Len(history) >= 1 /\ HasField(1, KeyStage)
  /\ Field(1, KeyStage) = <<"-", "d", "e", "v">>

\* The text {"message":"<m>","timestamp":"<t>","stage":"<s>"}, the three
\* values written as JSON strings.
SerializedForm(m, t, s) ==
  <<"{", "\"", "m", "e", "s", "s", "a", "g", "e", "\"", ":", "\"">>
  \o EscapeString(m)
  \o <<"\"", ",", "\"", "t", "i", "m", "e", "s", "t", "a", "m", "p", "\"", ":", "\"">>
  \o EscapeString(t)
  \o <<"\"", ",", "\"", "s", "t", "a", "g", "e", "\"", ":", "\"">>
  \o EscapeString(s)
  \o <<"\"", "}">>

\* C18: the body of every response, when it is returned, is exactly the text
\* {"message":"<message>","timestamp":"<timestamp>","stage":"<stage>"} of
\* its three decoded fields: that order, no whitespace between the tokens
\* and nothing after the closing brace.
C18_BodySerializedForm ==
  \A i \in LastCall :
    /\ HasField(i, KeyMessage) /\ HasField(i, KeyTimestamp) /\ HasField(i, KeyStage)
    /\ Envelope(i).body = SerializedForm(Field(i, KeyMessage),
                                          Field(i, KeyTimestamp),
                                          Field(i, KeyStage))

\* C18 witness: a response whose stage is the default and whose body ends
\* with "stage":"dev"} has been returned.
C18_Witness ==
  \E i \in Calls :
    /\ Returned(i) /\ history[i].stage = <<>>
    /\ LET b == Envelope(i).body
       IN  /\ Len(b) > 14
           /\ SubSeq(b, Len(b) - 13, Len(b)) =
                <<"\"", "s", "t", "a", "g", "e", "\"", ":", "\"", "d", "e", "v", "\"", "}">>

\* C19: of its surroundings an invocation reads STAGE and the clock only:
\* two invocations with the same STAGE value and clock reading return the
\* same response when the rest of the environment or the request and
\* context differ.
C19_ReadsOnlyStageAndClock ==
  \A i, j \in Calls :
    ( /\ history[i].stage = history[j].stage
      /\ history[i].time = history[j].time
      /\ \/ history[i].others /= history[j].others
         \/ history[i].event /= history[j].event
         \/ history[i].context /= history[j].context )
    => history[i].promise = history[j].promise

\* C19 witness: two invocations with the same STAGE and clock reading, made
\* with different REGION values and different requests.
C19_Witness ==
  \E i, j \in Calls :
    /\ history[i].stage = history[j].stage /\ history[i].time = history[j].time
    /\ history[i].others /= history[j].others
    /\ history[i].event /= history[j].event
    /\ Returned(i) /\ Returned(j)

\* The four fixed headers, none missing, none added.
IsFixedHeaderSet(h) ==
  /\ DOMAIN h = {"Content-Type", "Access-Control-Allow-Origin",
                 "Access-Control-Allow-Headers", "Access-Control-Allow-Methods"}
  /\ h["Content-Type"] = "application/json"
  /\ h["Access-Control-Allow-Origin"] = "*"
  /\ h["Access-Control-Allow-Headers"] = "Content-Type"
  /\ h["Access-Control-Allow-Methods"] = "OPTIONS,POST,GET"

\* An envelope as main builds it.
Pristine(i) ==
  /\ Returned(i)
  /\ Envelope(i).statusCode = 200
  /\ IsFixedHeaderSet(Envelope(i).headers)

\* C20: whatever callers have done to the envelopes they hold, the envelope
\* a new invocation returns has statusCode 200 and exactly the fixed
\* headers, and the invocation leaves the envelopes of earlier invocations
\* as they are.
C20_FreshEnvelopePerInvocation ==
  [][InvokeStep =>
       /\ history'[Len(history')].promise.state = "fulfilled"
       /\ history'[Len(history')].promise.value.statusCode = 200
       /\ IsFixedHeaderSet(history'[Len(history')].promise.value.headers)
       /\ \A i \in Calls : history'[i].promise = history[i].promise]_vars

\* C20 witness: the caller of the first invocation changed its envelope
\* before the second invocation, whose envelope is as main builds it.
C20_Witness ==
  /\ Len(history) = 2
  /\ Returned(1) /\ ~Pristine(1)
  /\ history[1].time /= history[2].time
  /\ Pristine(2)

\* C21: when the clock was set back between two invocations made one after
\* the other, both return statusCode 200 and the time the later timestamp
\* denotes is earlier than the time the first one denotes.
C21_NoOrderingEnforced ==
  \A i, j \in Calls :
    (i < j /\ history[i].time /= history[j].time
           /\ TimeLeq(history[j].time, history[i].time)) =>
      /\ Returned(i) /\ Envelope(i).statusCode = 200
      /\ Returned(j) /\ Envelope(j).statusCode = 200
      /\ HasField(i, KeyTimestamp) /\ HasField(j, KeyTimestamp)
      /\ LET ti == TimestampOf(i)
             tj == TimestampOf(j)
         IN  ti.finite /\ tj.finite /\ ti /= tj /\ TimeLeq(tj, ti)

\* C21 witness: the clock was set back, within the same day, between the
\* first and the second invocation, and both returned.
C21_Witness ==
  /\ Len(history) = 2
  /\ history[1].time.day = history[2].time.day
  /\ history[2].time.ms < history[1].time.ms
  /\ Returned(1) /\ Returned(2)

====
